---- MODULE Spec2Model ----
(***************************************************************************)
(* The tracker of HamuRafael/tracker (src/tracker.py): the registry of     *)
(* peers, the one-command-per-connection handler and the reaper thread.    *)
(*                                                                         *)
(* The registry is the Python dict self.peers.  A dict keeps its keys in   *)
(* insertion order, so it is modelled as a sequence of entries, each the   *)
(* key (pid) together with the fields of its value.  Every handler does    *)
(* all of its registry work inside one `with self.lock` block, so one      *)
(* command is one atomic step here.  The reaper samples the time before    *)
(* it takes the lock, so it is two steps: the sample and the pass.         *)
(* The handlers are also given step by step, one thread per connection,    *)
(* and the two peers of src/peer.py (the DOWNLOAD handler, request_file     *)
(* and its threads) follow the tracker.                                    *)
(***************************************************************************)
EXTENDS Integers, Sequences, FiniteSets, TLC

\* ---------------------------------------------------------------- inputs
\* Peer ids a command may name.
Ids == {"PEER1", "PEER2"}

\* Addresses of the clients that connect (the addr of handle_client).
Ips == {"10.0.0.1", "10.0.0.2"}

\* The port a client at ip listens on and announces in its REGISTER.
PortOf(ip) == IF ip = "10.0.0.1" THEN 6001 ELSE 6002

\* File names.
Files == {"a.txt", "b.txt"}

\* The file lists a REGISTER may carry: <<>> is the four-token form (no
\* [files] token), the others are the fifth token split at its commas.
FileLists == {<<>>, <<"a.txt">>, <<"a.txt", "b.txt">>}

\* The <delta> values an INCREMENT_SCORE may carry: int() parses a sign.
Deltas == {-1, 1}

\* timeout of remove_inactive_peers, in seconds.
Timeout == 60

\* Seconds that may pass between two steps: just under, exactly and just over
\* the timeout.
TickSteps == {Timeout - 1, Timeout, Timeout + 1}

\* A silence after which every record is stale.
Silence == 2 * Timeout + 1

\* Bounds of the model: the clock stops at MaxTime, a score stays within
\* -MaxScore .. MaxScore.
MaxTime == 123
MaxScore == 1

\* ----------------------------------------------------------------- state
VARIABLES
    peers,        \* self.peers, in insertion order
    time,         \* time.time(), in seconds
    pcReaper,     \* where remove_inactive_peers is: "sleep" or "sampled"
    now,          \* the reaper's local now
    remove_list,  \* the reaper's local remove_list
    req,          \* the command of the last connection handled, and its sender
    resp,         \* the response written to that connection
    conn,         \* that connection: the tokens read, the sendall calls made
    lock,         \* self.lock: "free", or the thread that holds it
    workers,      \* the handle_client threads, each at its own position
    disk,         \* the bytes of the file a.txt of the serving peer
    served,       \* the last DOWNLOAD the serving peer handled, and its reply
    reports,      \* the serving peer's INCREMENT_SCORE messages in flight
    local_files,  \* self.files of the downloading peer
    download,     \* the downloading peer's request_file
    chunks,       \* its _download_chunk threads
    dest,         \* the bytes of its destination file
    score0,       \* the serving peer's score when request_file began
    offered,      \* self.files of the serving peer
    keepalive     \* the serving peer's _keepalive_loop

\* The variables of the registry, its handlers and its reaper.
trackerVars == <<peers, time, pcReaper, now, remove_list, req, resp>>

\* The variables of the handle_client threads taken step by step.
workerVars == <<lock, workers>>

\* The variables of the two peers.
peerVars ==
    <<disk, served, reports, local_files, download, chunks, dest, score0,
      offered, keepalive>>

vars ==
    <<peers, time, pcReaper, now, remove_list, req, resp, conn, lock, workers,
      disk, served, reports, local_files, download, chunks, dest, score0,
      offered, keepalive>>

\* ------------------------------------------------------ registry helpers
\* peer_id in self.peers
Has(ps, pid) == \E i \in 1..Len(ps) : ps[i].pid = pid

\* self.peers[peer_id]
Get(ps, pid) == ps[CHOOSE i \in 1..Len(ps) : ps[i].pid = pid]

\* The keys of the dict.
Keys(ps) == {ps[i].pid : i \in 1..Len(ps)}

\* filename in info["files"]
InList(x, list) == \E j \in 1..Len(list) : list[j] = x

\* Variant of NewPeer: the registration time is not recorded.
NewPeerUnstamped(pid, ip, port, files, t) ==
    [pid |-> pid, ip |-> ip, port |-> port, files |-> files,
     last_keepalive |-> 0, score |-> 0]

\* The value REGISTER stores for a new peer.
NewPeer(pid, ip, port, files, t) ==
    [pid |-> pid, ip |-> ip, port |-> port, files |-> files,
     last_keepalive |-> t, score |-> 0]

\* --------------------------------------------------------------- REGISTER
\* Variant of RegisterPeers: a REGISTER for a present id appends the announced
\* files the entry does not hold yet.
RegisterPeersMerge(ps, pid, ip, port, files, t) ==
    IF Has(ps, pid)
    THEN [i \in 1..Len(ps) |->
            IF ps[i].pid = pid
            THEN LET New(f) == ~InList(f, ps[i].files)
                 IN  [ps[i] EXCEPT !.files = @ \o SelectSeq(files, New)]
            ELSE ps[i]]
    ELSE Append(ps, NewPeer(pid, ip, port, files, t))

\* Variant of RegisterPeers: a REGISTER for a present id stores a new value
\* under the key.
RegisterPeersOverwrite(ps, pid, ip, port, files, t) ==
    IF Has(ps, pid)
    THEN [i \in 1..Len(ps) |->
            IF ps[i].pid = pid THEN NewPeer(pid, ip, port, files, t) ELSE ps[i]]
    ELSE Append(ps, NewPeer(pid, ip, port, files, t))

\* Variant of RegisterPeers: a REGISTER for a present id refreshes its
\* last_keepalive.
RegisterPeersRefresh(ps, pid, ip, port, files, t) ==
    IF Has(ps, pid)
    THEN [i \in 1..Len(ps) |->
            IF ps[i].pid = pid THEN [ps[i] EXCEPT !.last_keepalive = t]
            ELSE ps[i]]
    ELSE Append(ps, NewPeer(pid, ip, port, files, t))

\* The registry after REGISTER <peer_id> <ip> <port> [files] at time t.
RegisterPeers(ps, pid, ip, port, files, t) ==
    IF Has(ps, pid) THEN ps
    ELSE Append(ps, NewPeer(pid, ip, port, files, t))

\* Variant of RegisterResp: every REGISTER is acknowledged.
RegisterRespOk(ps, pid) == "REGISTER_OK"

\* The response to it.
RegisterResp(ps, pid) ==
    IF Has(ps, pid) THEN "ALREADY_REGISTERED" ELSE "REGISTER_OK"

\* ------------------------------------------------------------- UNREGISTER
\* del self.peers[peer_id]
DelPeer(ps, pid) ==
    LET Keep(e) == e.pid # pid IN SelectSeq(ps, Keep)

\* Variant of UnregisterPeers: the whole dict is cleared.
UnregisterPeersClear(ps, pid) == IF Has(ps, pid) THEN <<>> ELSE ps

UnregisterPeers(ps, pid) == IF Has(ps, pid) THEN DelPeer(ps, pid) ELSE ps

UnregisterResp(ps, pid) ==
    IF Has(ps, pid) THEN "UNREGISTER_OK" ELSE "ERROR Peer nao encontrado"

\* ----------------------------------------------------------------- SEARCH
\* Variant of SearchResult: only the first name of an entry's files is
\* compared.
SearchResultFirst(ps, filename) ==
    LET Hit(e) == e.files # <<>> /\ e.files[1] = filename
        hits == SelectSeq(ps, Hit)
    IN  [i \in 1..Len(hits) |-> <<hits[i].pid, hits[i].ip, hits[i].port>>]

\* The result list of SEARCH <filename>: one (pid, ip, port) per entry whose
\* files hold the name, in the dict's order.
SearchResult(ps, filename) ==
    LET Hit(e) == InList(filename, e.files)
        hits == SelectSeq(ps, Hit)
    IN  [i \in 1..Len(hits) |-> <<hits[i].pid, hits[i].ip, hits[i].port>>]

\* -------------------------------------------------------------- GET_PEERS
PeerList(ps) ==
    [i \in 1..Len(ps) |->
        <<ps[i].pid, ps[i].ip, ps[i].port, ps[i].files, ps[i].score>>]

\* -------------------------------------------------------------- KEEPALIVE
\* Variant of KeepalivePeers: the KEEPALIVE is acknowledged and not recorded.
KeepalivePeersUnrecorded(ps, pid, t) == ps

\* Variant of KeepalivePeers: the KEEPALIVE of an absent id creates a record.
KeepalivePeersCreate(ps, pid, t) ==
    IF Has(ps, pid)
    THEN [i \in 1..Len(ps) |->
            IF ps[i].pid = pid THEN [ps[i] EXCEPT !.last_keepalive = t]
            ELSE ps[i]]
    ELSE Append(ps, NewPeer(pid, "", 0, <<>>, t))

\* self.peers[peer_id]["last_keepalive"] = time.time()
KeepalivePeers(ps, pid, t) ==
    [i \in 1..Len(ps) |->
        IF ps[i].pid = pid THEN [ps[i] EXCEPT !.last_keepalive = t] ELSE ps[i]]

KeepaliveResp(ps, pid) ==
    IF Has(ps, pid) THEN "KEEPALIVE_OK"
    ELSE "ERROR Peer nao encontrado para KEEPALIVE"

\* -------------------------------------------------------- INCREMENT_SCORE
\* Variant of IncrementPeers: the delta is added to every entry.
IncrementPeersAll(ps, pid, delta) ==
    IF Has(ps, pid)
    THEN [i \in 1..Len(ps) |-> [ps[i] EXCEPT !.score = @ + delta]]
    ELSE ps

\* self.peers[peer_id]["score"] += delta
IncrementPeers(ps, pid, delta) ==
    [i \in 1..Len(ps) |->
        IF ps[i].pid = pid THEN [ps[i] EXCEPT !.score = @ + delta] ELSE ps[i]]

IncrementResp(ps, pid) ==
    IF Has(ps, pid) THEN "INCREMENT_OK"
    ELSE "ERROR Peer nao encontrado para INCREMENT_SCORE"

\* ----------------------------------------------------------------- reaper
\* Variant of Stale: an entry aged exactly the timeout is stale too.
StaleInclusive(info, t) ==
    /\ info.last_keepalive # 0
    /\ t - info.last_keepalive >= Timeout

\* The reaper's test of one entry against its sampled time t: an entry whose
\* last_keepalive is falsy is skipped.
Stale(info, t) ==
    /\ info.last_keepalive # 0
    /\ t - info.last_keepalive > Timeout

\* Variant of RemoveList: every key, whatever the entry's age.
RemoveListAll(ps, t) == [i \in 1..Len(ps) |-> ps[i].pid]

\* remove_list: the keys of the stale entries.
RemoveList(ps, t) ==
    LET IsStale(e) == Stale(e, t)
        stale == SelectSeq(ps, IsStale)
    IN  [i \in 1..Len(stale) |-> stale[i].pid]

\* for peer_id in remove_list: del self.peers[peer_id]
RECURSIVE DelAll(_, _)
DelAll(ps, list) ==
    IF list = <<>> THEN ps ELSE DelAll(DelPeer(ps, Head(list)), Tail(list))

\* --------------------------------------------------- requests, responses
Request(from, cmd, pid, ip, port, files, filename, delta) ==
    [from |-> from, cmd |-> cmd, pid |-> pid, ip |-> ip, port |-> port,
     files |-> files, filename |-> filename, delta |-> delta]

\* One line of text.
Line(text) == [text |-> text, n |-> 0, lines |-> <<>>]

\* A header line with a count, and the lines that follow it.
Listing(text, lines) == [text |-> text, n |-> Len(lines), lines |-> lines]

\* A connection: the tokens of the data read from it, the number of sendall
\* calls made on it, and whether it was closed.
Connection(parts, sends, closed) ==
    [parts |-> parts, sends |-> sends, closed |-> closed]

\* The handle_client threads that start() runs, one per connection.
Workers == {"w1", "w2", "w3"}

\* A handle_client thread: its position, the command it read, the score it
\* loaded for `+=`, and the response it sends.
Worker(pc, cmd, pid, delta, score, text) ==
    [pc |-> pc, cmd |-> cmd, pid |-> pid, delta |-> delta, score |-> score,
     resp |-> text]

\* The reply of the serving peer to DOWNLOAD <filename> <start> <end>: the
\* text or the bytes it sent, and the delta it reported (0: no report).
Reply(filename, start, end, text, data, report) ==
    [filename |-> filename, start |-> start, end |-> end, text |-> text,
     data |-> data, report |-> report]

\* self.files of the serving peer as it starts.
ServerFiles == <<"a.txt", "b.txt">>

\* interval of _keepalive_loop, in seconds.
Interval == 30

\* _keepalive_loop: its position, the time its sleep ends, and what the last
\* send_keepalive got from _send_msg_to_tracker.
Loop(pc, wake, result) == [pc |-> pc, wake |-> wake, result |-> result]

\* The locals of request_file.
Download(pc, filename, file_size, num_connections, chunk_size) ==
    [pc |-> pc, filename |-> filename, file_size |-> file_size,
     num_connections |-> num_connections, chunk_size |-> chunk_size]

\* What the commands of one handler leave alone.
Elsewhere == UNCHANGED <<conn, workerVars, peerVars>>

\* ------------------------------------------------------------------ Init
InitTracker ==
    /\ peers = <<>>
    /\ time = 1
    /\ pcReaper = "sleep"
    /\ now = 0
    /\ remove_list = <<>>
    /\ req = Request("", "", "", "", 0, <<>>, "", 0)
    /\ resp = Line("")
    /\ conn = Connection(<<>>, 0, FALSE)
    /\ lock = "free"
    /\ workers = [w \in Workers |-> Worker("idle", "", "", 0, 0, "")]

\* The two peers before any transfer; the serving peer's file holds the
\* bytes `content`.
InitPeers(content) ==
    /\ disk = content
    /\ served = Reply("", 0, 0, "", <<>>, 0)
    /\ reports = <<>>
    /\ local_files = <<>>
    /\ download = Download("idle", "", 0, 0, 0)
    /\ chunks = <<>>
    /\ dest = <<>>
    /\ score0 = 0
    /\ offered = ServerFiles
    /\ keepalive = Loop("sleep", time + Interval, "")

Init == InitTracker /\ InitPeers(<<>>)

\* --------------------------------------------------------------- actions
Register(from, pid, ip, port, files) ==
    /\ peers' = RegisterPeers(peers, pid, ip, port, files, time)
    /\ resp' = Line(RegisterResp(peers, pid))
    /\ req' = Request(from, "REGISTER", pid, ip, port, files, "", 0)
    /\ UNCHANGED <<time, pcReaper, now, remove_list>>

Unregister(from, pid) ==
    /\ peers' = UnregisterPeers(peers, pid)
    /\ resp' = Line(UnregisterResp(peers, pid))
    /\ req' = Request(from, "UNREGISTER", pid, "", 0, <<>>, "", 0)
    /\ UNCHANGED <<time, pcReaper, now, remove_list>>

Search(from, filename) ==
    /\ resp' = Listing("SEARCH_RESULT", SearchResult(peers, filename))
    /\ req' = Request(from, "SEARCH", "", "", 0, <<>>, filename, 0)
    /\ UNCHANGED <<peers, time, pcReaper, now, remove_list>>

GetPeers(from) ==
    /\ resp' = Listing("PEER_LIST", PeerList(peers))
    /\ req' = Request(from, "GET_PEERS", "", "", 0, <<>>, "", 0)
    /\ UNCHANGED <<peers, time, pcReaper, now, remove_list>>

Keepalive(from, pid) ==
    /\ peers' = KeepalivePeers(peers, pid, time)
    /\ resp' = Line(KeepaliveResp(peers, pid))
    /\ req' = Request(from, "KEEPALIVE", pid, "", 0, <<>>, "", 0)
    /\ UNCHANGED <<time, pcReaper, now, remove_list>>

\* INCREMENT_SCORE <peer_id> <delta>.
HandleIncrement(from, pid, delta) ==
    /\ peers' = IncrementPeers(peers, pid, delta)
    /\ resp' = Line(IncrementResp(peers, pid))
    /\ req' = Request(from, "INCREMENT_SCORE", pid, "", 0, <<>>, "", delta)
    /\ UNCHANGED <<time, pcReaper, now, remove_list>>

\* The same, for the scores within the bound.
IncrementScore(from, pid, delta) ==
    /\ Has(peers, pid) =>
          /\ Get(peers, pid).score + delta <= MaxScore
          /\ Get(peers, pid).score + delta >= 0 - MaxScore
    /\ HandleIncrement(from, pid, delta)

\* time.sleep(10) returns and the reaper samples the time.
ReaperSample ==
    /\ pcReaper = "sleep"
    /\ now' = time
    /\ pcReaper' = "sampled"
    /\ UNCHANGED <<peers, time, remove_list, req, resp>>

\* The reaper's critical section.
ReaperPass ==
    /\ pcReaper = "sampled"
    /\ remove_list' = RemoveList(peers, now)
    /\ peers' = DelAll(peers, RemoveList(peers, now))
    /\ pcReaper' = "sleep"
    /\ UNCHANGED <<time, now, req, resp>>

\* Time passes.
Tick(d) ==
    /\ time + d <= MaxTime
    /\ time' = time + d
    /\ UNCHANGED <<peers, pcReaper, now, remove_list, req, resp>>

\* A client at one of `ips` sends a command other than KEEPALIVE, its
\* arguments drawn from `lists` and `deltas`.  A client announces its own
\* address.
Commands(ips, lists, deltas) ==
    \/ \E from \in ips, pid \in Ids, files \in lists :
          Register(from, pid, from, PortOf(from), files) /\ Elsewhere
    \/ \E from \in ips, pid \in Ids : Unregister(from, pid) /\ Elsewhere
    \/ \E from \in ips, filename \in Files :
          Search(from, filename) /\ Elsewhere
    \/ \E from \in ips : GetPeers(from) /\ Elsewhere
    \/ \E from \in ips, pid \in Ids, delta \in deltas :
          IncrementScore(from, pid, delta) /\ Elsewhere

\* A client sends KEEPALIVE.
KeepaliveCommand(ips) ==
    \E from \in ips, pid \in Ids : Keepalive(from, pid) /\ Elsewhere

\* The reaper moves, or one of `steps` seconds pass.
Background(steps) ==
    \/ ReaperSample /\ Elsewhere
    \/ ReaperPass /\ Elsewhere
    \/ \E d \in steps : Tick(d) /\ Elsewhere

\* The commands in all their variety from one client, time passing in one
\* long silence.
Next ==
    \/ Commands({"10.0.0.1"}, FileLists, Deltas)
    \/ KeepaliveCommand({"10.0.0.1"})
    \/ Background({Silence})

Spec == Init /\ [][Next]_vars

\* Two clients, each of which may name either peer id.
NextClients ==
    \/ Commands(Ips, {<<>>, <<"a.txt">>}, {1})
    \/ KeepaliveCommand(Ips)
    \/ Background({Silence})

SpecClients == Init /\ [][NextClients]_vars

\* Time in all its variety around the timeout, the commands from one client.
NextTime ==
    \/ Commands({"10.0.0.1"}, {<<"a.txt">>}, {1})
    \/ KeepaliveCommand({"10.0.0.1"})
    \/ Background(TickSteps)

SpecTime == Init /\ [][NextTime]_vars

\* The same, with peers that never send a KEEPALIVE.
NextSilent ==
    \/ Commands({"10.0.0.1"}, {<<"a.txt">>}, {1})
    \/ Background(TickSteps)

SpecSilent == Init /\ [][NextSilent]_vars

\* ------------------------------------------------- the command dispatcher
\* handle_client as a whole: the data read from the connection, split at
\* white space, is dispatched on its first token and its token count.
\* Strings are atoms here, so upper(), int() and split(",") are given by
\* their values on the tokens the model sends.

\* parts[0].upper()
Upper(tok) ==
    CASE tok = "register" -> "REGISTER"
      [] tok = "keepalive" -> "KEEPALIVE"
      [] OTHER -> tok

\* The tokens int() parses, and its value on them; on any other token int()
\* raises ValueError.
IsInt(tok) == tok \in {"6001", "6002", "1"}

IntOf(tok) ==
    CASE tok = "6001" -> 6001
      [] tok = "6002" -> 6002
      [] tok = "1" -> 1
      [] OTHER -> 0

\* parts[4].split(",")
SplitCommas(tok) ==
    CASE tok = "a.txt,b.txt" -> <<"a.txt", "b.txt">>
      [] tok = "a.txt,a.txt" -> <<"a.txt", "a.txt">>
      [] OTHER -> <<tok>>

\* The longest line sent for a verb and a peer id; the lines sent are its
\* prefixes, from the verb alone to one token more than the verb takes.
Row(verb, pid) ==
    CASE Upper(verb) = "REGISTER" ->
            <<verb, pid, "10.0.0.1", "6001", "a.txt", "b.txt">>
      [] Upper(verb) = "INCREMENT_SCORE" -> <<verb, pid, "1", "1">>
      [] Upper(verb) = "SEARCH" -> <<verb, "a.txt", "b.txt">>
      [] Upper(verb) = "GET_PEERS" -> <<verb, pid>>
      [] OTHER -> <<verb, pid, pid>>

\* The first tokens sent: the six verbs, two of them in lower case too, and
\* a word that is no verb.
FirstTokens ==
    {"REGISTER", "UNREGISTER", "SEARCH", "GET_PEERS", "KEEPALIVE",
     "INCREMENT_SCORE", "register", "keepalive", "HELLO"}

\* The data a connection may carry: nothing, a prefix of a row, a REGISTER
\* whose port is no number or whose files are a comma-separated list, an
\* INCREMENT_SCORE whose delta is no number.
Lines ==
    {<<>>}
    \cup UNION {{SubSeq(Row(verb, pid), 1, n) : n \in 1..Len(Row(verb, pid))} :
                   verb \in FirstTokens, pid \in Ids}
    \cup {<<"REGISTER", pid, "10.0.0.1", "port">> : pid \in Ids}
    \cup {<<"REGISTER", pid, "10.0.0.1", "6001", "a.txt,b.txt">> : pid \in Ids}
    \cup {<<"INCREMENT_SCORE", pid, "ten">> : pid \in Ids}

\* A usage error or the unknown-command error is sent: the registry is not
\* touched.
Reject(from, cmd, text) ==
    /\ resp' = Line(text)
    /\ req' = Request(from, cmd, "", "", 0, <<>>, "", 0)
    /\ UNCHANGED <<peers, time, pcReaper, now, remove_list>>

\* The handler ends without a sendall: `if not data: return`, or an
\* exception that the except clause prints.
NoResponse(from, cmd) ==
    /\ resp' = Line("")
    /\ req' = Request(from, cmd, "", "", 0, <<>>, "", 0)
    /\ UNCHANGED <<peers, time, pcReaper, now, remove_list>>

\* The number of sendall calls handle_client makes for the data `parts`
\* with the registry ps.
Sends(ps, parts) ==
    IF parts = <<>> THEN 0
    ELSE CASE Upper(parts[1]) = "REGISTER" /\ Len(parts) >= 4
                 /\ ~Has(ps, parts[2]) /\ ~IsInt(parts[4]) -> 0
           [] Upper(parts[1]) = "INCREMENT_SCORE" /\ Len(parts) = 3
                 /\ ~IsInt(parts[3]) -> 0
           [] OTHER -> 1

\* The branch of handle_client taken for the data `parts`.
Dispatch(from, parts) ==
    IF parts = <<>> THEN NoResponse(from, "")
    ELSE
      LET cmd == Upper(parts[1])
          n == Len(parts)
      IN  CASE cmd = "REGISTER" ->
                  IF n >= 4
                  THEN LET file_list ==
                              IF n = 5 THEN SplitCommas(parts[5]) ELSE <<>>
                       IN  IF Has(peers, parts[2]) \/ IsInt(parts[4])
                           THEN Register(from, parts[2], parts[3],
                                         IntOf(parts[4]), file_list)
                           ELSE NoResponse(from, cmd)
                  ELSE Reject(from, cmd,
                          "ERROR Uso: REGISTER <peer_id> <ip> <port> [files]")
            [] cmd = "UNREGISTER" ->
                  IF n = 2 THEN Unregister(from, parts[2])
                  ELSE Reject(from, cmd, "ERROR Uso: UNREGISTER <peer_id>")
            [] cmd = "SEARCH" ->
                  IF n = 2 THEN Search(from, parts[2])
                  ELSE Reject(from, cmd, "ERROR Uso: SEARCH <filename>")
            [] cmd = "GET_PEERS" -> GetPeers(from)
            [] cmd = "KEEPALIVE" ->
                  IF n = 2 THEN Keepalive(from, parts[2])
                  ELSE Reject(from, cmd, "ERROR Uso: KEEPALIVE <peer_id>")
            [] cmd = "INCREMENT_SCORE" ->
                  IF n = 3
                  THEN IF IsInt(parts[3])
                       THEN IncrementScore(from, parts[2], IntOf(parts[3]))
                       ELSE NoResponse(from, cmd)
                  ELSE Reject(from, cmd,
                          "ERROR Uso: INCREMENT_SCORE <peer_id> <delta>")
            [] OTHER -> Reject(from, cmd, "ERROR Comando desconhecido")

\* One connection, from recv to close.
HandleClient(from, parts) ==
    /\ Dispatch(from, parts)
    /\ conn' = Connection(parts, Sends(peers, parts), TRUE)
    /\ UNCHANGED <<workerVars, peerVars>>

\* Any line at all from one client, time passing in one long silence.
NextParse ==
    \/ \E parts \in Lines : HandleClient("10.0.0.1", parts)
    \/ Background({Silence})

SpecParse == Init /\ [][NextParse]_vars

\* The lines of clients that register with a file list, one of them with a
\* list that names a file twice, and that unregister and search.
ListLines ==
    {<<"REGISTER", pid, "10.0.0.1", "6001", tok>> :
        pid \in Ids, tok \in {"a.txt", "a.txt,b.txt", "a.txt,a.txt"}}
    \cup {<<"UNREGISTER", pid>> : pid \in Ids}
    \cup {<<"KEEPALIVE", pid>> : pid \in Ids}
    \cup {<<"SEARCH", "a.txt">>, <<"GET_PEERS">>}

NextLists ==
    \/ \E parts \in ListLines : HandleClient("10.0.0.1", parts)
    \/ Background({Silence})

SpecLists == Init /\ [][NextLists]_vars

\* ------------------------------------------- the handlers, step by step
\* The same handlers with the steps of one thread apart: the thread reads its
\* command, enters `with self.lock`, works on the dict, calls sendall, leaves
\* the with block and closes.  `self.peers[peer_id]["score"] += delta` is a
\* load of the score and a store of the sum.

\* The deltas these threads carry.
WorkerDeltas == {1, 2}

\* Variant of CanAcquire: the with statement does not wait.
CanAcquireAlways(l) == TRUE

\* `with self.lock` enters when no thread holds the lock.
CanAcquire(l) == l = "free"

\* self.peers[peer_id]["score"] = v
SetScore(ps, pid, v) ==
    [i \in 1..Len(ps) |->
        IF ps[i].pid = pid THEN [ps[i] EXCEPT !.score = v] ELSE ps[i]]

\* accept() hands a connection to a new thread, which reads a command.
Accept(w, cmd, pid, delta) ==
    /\ workers[w].pc = "idle"
    /\ workers' = [workers EXCEPT ![w] = Worker("parsed", cmd, pid, delta, 0, "")]
    /\ UNCHANGED <<trackerVars, conn, lock, peerVars>>

\* The thread enters `with self.lock`.
Acquire(w) ==
    /\ workers[w].pc = "parsed"
    /\ CanAcquire(lock)
    /\ lock' = w
    /\ workers' = [workers EXCEPT ![w].pc = "locked"]
    /\ UNCHANGED <<trackerVars, conn, peerVars>>

\* REGISTER inside the lock, up to its sendall.
RegisterBody(w) ==
    /\ workers[w].pc = "locked"
    /\ workers[w].cmd = "REGISTER"
    /\ peers' = RegisterPeers(peers, workers[w].pid, "10.0.0.1", 6001, <<>>, time)
    /\ workers' = [workers EXCEPT
                      ![w].pc = "send",
                      ![w].resp = RegisterResp(peers, workers[w].pid)]
    /\ UNCHANGED <<time, pcReaper, now, remove_list, req, resp, conn, lock,
                   peerVars>>

\* INCREMENT_SCORE inside the lock: the test of the id and the load of the
\* score.
IncrementLoad(w) ==
    /\ workers[w].pc = "locked"
    /\ workers[w].cmd = "INCREMENT_SCORE"
    /\ workers' =
          IF Has(peers, workers[w].pid)
          THEN [workers EXCEPT
                   ![w].pc = "loaded",
                   ![w].score = Get(peers, workers[w].pid).score]
          ELSE [workers EXCEPT
                   ![w].pc = "send",
                   ![w].resp = IncrementResp(peers, workers[w].pid)]
    /\ UNCHANGED <<trackerVars, conn, lock, peerVars>>

\* The store of the sum, up to the sendall.
IncrementStore(w) ==
    /\ workers[w].pc = "loaded"
    /\ peers' = SetScore(peers, workers[w].pid,
                         workers[w].score + workers[w].delta)
    /\ workers' = [workers EXCEPT
                      ![w].pc = "send",
                      ![w].resp = IncrementResp(peers, workers[w].pid)]
    /\ UNCHANGED <<time, pcReaper, now, remove_list, req, resp, conn, lock,
                   peerVars>>

\* GET_PEERS builds its response inside the lock and leaves the with block
\* before its sendall.
GetPeersBody(w) ==
    /\ workers[w].pc = "locked"
    /\ workers[w].cmd = "GET_PEERS"
    /\ lock' = "free"
    /\ workers' = [workers EXCEPT ![w].pc = "send", ![w].resp = "PEER_LIST"]
    /\ UNCHANGED <<trackerVars, conn, peerVars>>

\* conn.sendall returns: the client has taken the response.  GET_PEERS
\* closes after it, the other commands are still inside the with block.
Send(w) ==
    /\ workers[w].pc = "send"
    /\ workers' = [workers EXCEPT
                      ![w].pc = IF workers[w].cmd = "GET_PEERS"
                                THEN "closed" ELSE "sent"]
    /\ UNCHANGED <<trackerVars, conn, lock, peerVars>>

\* The thread leaves the with block and closes the connection.
Release(w) ==
    /\ workers[w].pc = "sent"
    /\ lock' = "free"
    /\ workers' = [workers EXCEPT ![w].pc = "closed"]
    /\ UNCHANGED <<trackerVars, conn, peerVars>>

\* The reaper's pass, which waits for the lock as the handlers do.
ReaperLocked ==
    /\ CanAcquire(lock)
    /\ ReaperPass
    /\ Elsewhere

\* Three connections, handled by three threads and the reaper.
NextWorkers ==
    \/ \E w \in Workers, delta \in WorkerDeltas :
          Accept(w, "INCREMENT_SCORE", "PEER1", delta)
    \/ \E w \in Workers : Accept(w, "REGISTER", "PEER1", 0)
    \/ \E w \in Workers : Accept(w, "GET_PEERS", "", 0)
    \/ \E w \in Workers : Acquire(w)
    \/ \E w \in Workers : RegisterBody(w)
    \/ \E w \in Workers : IncrementLoad(w)
    \/ \E w \in Workers : IncrementStore(w)
    \/ \E w \in Workers : GetPeersBody(w)
    \/ \E w \in Workers : Send(w)
    \/ \E w \in Workers : Release(w)
    \/ ReaperSample /\ Elsewhere
    \/ ReaperLocked

SpecWorkers == Init /\ [][NextWorkers]_vars

\* ------------------------------------------------ failures in a handler
\* An exception in handle_client: the with statement releases the lock when
\* the exception leaves its block, the except clause prints it and the
\* finally clause closes the connection.  The thread ends at "failed".

\* Variant of LockAfterRaise: the lock stays with the thread that raised.
LockAfterRaiseHeld(l, w) == l

\* The lock after an exception in thread w: free, if w was inside its with
\* block.
LockAfterRaise(l, w) == IF l = w THEN "free" ELSE l

\* A thread reads an INCREMENT_SCORE whose delta is no number: int() raises
\* before the with block.
ParseFails(w) ==
    /\ workers[w].pc = "idle"
    /\ workers' = [workers EXCEPT
                      ![w] = Worker("failed", "INCREMENT_SCORE", "PEER1", 0, 0, "")]
    /\ UNCHANGED <<trackerVars, conn, lock, peerVars>>

\* The REGISTER of a new id carries a port that is no number: int() raises
\* inside the with block, before the record is stored.
RegisterRaises(w) ==
    /\ workers[w].pc = "locked"
    /\ workers[w].cmd = "REGISTER"
    /\ ~Has(peers, workers[w].pid)
    /\ lock' = LockAfterRaise(lock, w)
    /\ workers' = [workers EXCEPT ![w].pc = "failed"]
    /\ UNCHANGED <<trackerVars, conn, peerVars>>

\* conn.sendall raises: the client has reset the connection.
SendFails(w) ==
    /\ workers[w].pc = "send"
    /\ lock' = LockAfterRaise(lock, w)
    /\ workers' = [workers EXCEPT ![w].pc = "failed"]
    /\ UNCHANGED <<trackerVars, conn, peerVars>>

\* The steps of thread w once it has its command.
WorkerStep(w) ==
    \/ Acquire(w)
    \/ RegisterBody(w)
    \/ IncrementLoad(w)
    \/ IncrementStore(w)
    \/ GetPeersBody(w)
    \/ Send(w)
    \/ Release(w)

\* The threads and the reaper, with handlers that fail.
NextFaults ==
    \/ NextWorkers
    \/ \E w \in Workers : ParseFails(w)
    \/ \E w \in Workers : RegisterRaises(w)
    \/ \E w \in Workers : SendFails(w)

\* Every thread that can take a step takes one in the end, and so does the
\* reaper: the threads are scheduled, and a sendall returns or raises.
SpecFaults ==
    /\ Init
    /\ [][NextFaults]_vars
    /\ \A w \in Workers : WF_vars(WorkerStep(w))
    /\ WF_vars(ReaperLocked)

\* ============================================================ the peers
\* src/peer.py: the serving peer PEER1 offers a.txt and b.txt, of which only
\* a.txt is on its disk; the downloading peer PEER2 fetches a file from it
\* with request_file.  A byte of a.txt is its position in the file, so a byte
\* out of place shows; the destination file is created full of zeros.

\* Bounds of the model: the size of a.txt and the num_connections of a
\* download, and the INCREMENT_SCORE messages of the serving peer that wait
\* for the tracker when it serves requests other than a download's.
MaxSize == 4
MaxConn == 3
MaxReports == 2

ServerId == "PEER1"
ServerIp == "10.0.0.1"
ClientId == "PEER2"
ClientIp == "10.0.0.2"

\* os.path.exists on the disk of the serving peer.
Exists(filename) == filename = "a.txt"

\* The file names a request may carry.
Names == {"a.txt", "b.txt", "c.txt"}

\* The bytes of a file of size n, and of a truncate(n) of a new file.
Bytes(n) == [i \in 1..n |-> i]

\* Variant of Zeros: the new file holds ones.
Ones(n) == [i \in 1..n |-> 1]

Zeros(n) == [i \in 1..n |-> 0]

\* Variant of ReadAt: the read is not positioned.
ReadAtStart(content, start, length) ==
    SubSeq(content, 1, IF length > Len(content) THEN Len(content) ELSE length)

\* f.seek(start); f.read(length): the bytes from offset start, up to length
\* of them, up to the end of the file.
ReadAt(content, start, length) ==
    SubSeq(content, start + 1,
           IF start + length > Len(content) THEN Len(content)
           ELSE start + length)

\* Variant of WriteAt: the write is not positioned.
WriteAtStart(content, start, data) ==
    [i \in 1..(IF Len(data) > Len(content) THEN Len(data) ELSE Len(content)) |->
        IF i <= Len(data) THEN data[i] ELSE content[i]]

\* f.seek(start); f.write(data) on a file opened "rb+": the bytes at the
\* offsets from start on are replaced, the file grows if it must.
WriteAt(content, start, data) ==
    [i \in 1..(IF start + Len(data) > Len(content)
               THEN start + Len(data) ELSE Len(content)) |->
        IF i > start /\ i <= start + Len(data) THEN data[i - start]
        ELSE IF i <= Len(content) THEN content[i] ELSE 0]

\* Variant of ScoreDelta: one point for each upload.
ScoreDeltaOne(length) == 1

\* self._increment_score(length)
ScoreDelta(length) == length

\* Variant of FileSize: the size of the file on the disk, whatever is asked.
FileSizeOnDisk(files, content, filename) == Len(content)

\* _handle_file_size_request: the size in FILE_SIZE_OK, and _get_file_size's
\* -1 for any other response.
FileSize(files, content, filename) ==
    IF InList(filename, files) /\ Exists(filename) THEN Len(content) ELSE 0 - 1

\* _handle_file_download_request.
Upload(files, content, filename, start, end) ==
    IF InList(filename, files) /\ Exists(filename)
    THEN LET file_size == Len(content)
             start1 == IF start < 0 THEN 0 ELSE start
             end1 == IF end > file_size THEN file_size ELSE end
             length == end1 - start1
         IN  IF length <= 0
             THEN Reply(filename, start, end, "", <<>>, 0)
             ELSE Reply(filename, start, end, "",
                        ReadAt(content, start1, length), ScoreDelta(length))
    ELSE Reply(filename, start, end, "ERROR FILE NOT FOUND", <<>>, 0)

\* The bytes of the line "ERROR FILE NOT FOUND\n".
ErrorLine ==
    <<69, 82, 82, 79, 82, 32, 70, 73, 76, 69, 32, 78, 79, 84, 32, 70, 79, 85,
      78, 68, 10>>

\* The bytes a reply puts on the connection: the error line or the bytes of
\* the file.
Wire(reply) == IF reply.text = "" THEN reply.data ELSE ErrorLine

\* Variant of ChunkRange: the last chunk is as long as the others.
ChunkRangeEven(i, chunk_size, file_size, num_connections) ==
    <<i * chunk_size, i * chunk_size + chunk_size>>

\* start and end of chunk i of request_file, i from 0.
ChunkRange(i, chunk_size, file_size, num_connections) ==
    <<i * chunk_size,
      IF i = num_connections - 1 THEN file_size
      ELSE i * chunk_size + chunk_size>>

\* A _download_chunk thread: its range, its position, the bytes the server
\* sent to it and the bytes it received.
Chunk(start, end, pc, wire, data) ==
    [start |-> start, end |-> end, pc |-> pc, wire |-> wire, data |-> data]

\* The sequence without its j-th element.
Without(list, j) ==
    [i \in 1..(Len(list) - 1) |-> IF i < j THEN list[i] ELSE list[i + 1]]

\* ------------------------------------------------------- the serving peer
\* The serving peer handles DOWNLOAD <filename> <start> <end> of any client
\* and, after a non-empty upload, sends its INCREMENT_SCORE.
ServeDownload(filename, start, end) ==
    /\ Len(reports) < MaxReports
    /\ served' = Upload(offered, disk, filename, start, end)
    /\ reports' = IF served'.report # 0 THEN Append(reports, served'.report)
                  ELSE reports
    /\ UNCHANGED <<trackerVars, conn, workerVars, offered, keepalive, disk, local_files,
                   download, chunks, dest, score0>>

\* The tracker handles one of the INCREMENT_SCORE messages in flight.
HandleReport(j) ==
    /\ j \in 1..Len(reports)
    /\ HandleIncrement(ServerIp, ServerId, reports[j])
    /\ reports' = Without(reports, j)
    /\ UNCHANGED <<conn, workerVars, offered, keepalive, disk, served,
                   local_files, download,
                   chunks, dest, score0>>

\* ---------------------------------------------------- the downloading peer
\* request_file up to the start of its threads: the FILE_SIZE query, the
\* destination file, the ranges.
StartDownload(filename, num_connections) ==
    /\ download.pc = "idle"
    /\ LET file_size == FileSize(offered, disk, filename)
           chunk_size == file_size \div num_connections
       IN  IF file_size <= 0
           THEN /\ download' = Download("failed", filename, file_size,
                                        num_connections, 0)
                /\ UNCHANGED <<chunks, dest>>
           ELSE /\ download' = Download("running", filename, file_size,
                                        num_connections, chunk_size)
                /\ dest' = Zeros(file_size)
                /\ chunks' =
                      [k \in 1..num_connections |->
                          LET r == ChunkRange(k - 1, chunk_size, file_size,
                                              num_connections)
                          IN  Chunk(r[1], r[2], "started", <<>>, <<>>)]
    /\ score0' = IF Has(peers, ServerId) THEN Get(peers, ServerId).score
                 ELSE 0 - 1
    /\ UNCHANGED <<trackerVars, conn, workerVars, offered, keepalive, disk, served, reports,
                   local_files>>

\* Thread k sends its DOWNLOAD; the serving peer handles it.
ServeChunk(k) ==
    /\ k \in 1..Len(chunks)
    /\ chunks[k].pc = "started"
    /\ served' = Upload(offered, disk, download.filename,
                        chunks[k].start, chunks[k].end)
    /\ chunks' = [chunks EXCEPT ![k].pc = "served", ![k].wire = Wire(served')]
    /\ reports' = IF served'.report # 0 THEN Append(reports, served'.report)
                  ELSE reports
    /\ UNCHANGED <<trackerVars, conn, workerVars, offered, keepalive, disk, local_files,
                   download, dest, score0>>

\* Thread k receives the bytes sent to it: all of them, or all but `lost`
\* of them when the connection closes early.
ReceiveChunk(k, lost) ==
    /\ k \in 1..Len(chunks)
    /\ chunks[k].pc = "served"
    /\ lost <= Len(chunks[k].wire)
    /\ LET total_bytes == chunks[k].end - chunks[k].start
           arrived == Len(chunks[k].wire) - lost
           received == IF arrived > total_bytes THEN total_bytes ELSE arrived
       IN  chunks' = [chunks EXCEPT
                         ![k].pc = "received",
                         ![k].data = SubSeq(chunks[k].wire, 1, received)]
    /\ UNCHANGED <<trackerVars, conn, workerVars, offered, keepalive, disk, served, reports,
                   local_files, download, dest, score0>>

\* Thread k writes what it received at its offset.
WriteChunk(k) ==
    /\ k \in 1..Len(chunks)
    /\ chunks[k].pc = "received"
    /\ dest' = WriteAt(dest, chunks[k].start, chunks[k].data)
    /\ chunks' = [chunks EXCEPT ![k].pc = "written"]
    /\ UNCHANGED <<trackerVars, conn, workerVars, offered, keepalive, disk, served, reports,
                   local_files, download, score0>>

\* All threads are joined: request_file returns.
FinishDownload ==
    /\ download.pc = "running"
    /\ \A k \in 1..Len(chunks) : chunks[k].pc = "written"
    /\ download' = [download EXCEPT !.pc = "done"]
    /\ UNCHANGED <<trackerVars, conn, workerVars, offered, keepalive, disk, served, reports,
                   local_files, chunks, dest, score0>>

\* register() of the serving peer and of the downloading peer.
PeerRegister(pid, ip, files) ==
    /\ Register(ip, pid, ip, PortOf(ip), files)
    /\ Elsewhere

\* search(filename) of the downloading peer.
PeerSearch(filename) ==
    /\ Search(ClientIp, filename)
    /\ Elsewhere

\* The file a.txt in every size up to the bound.
InitSizes == InitTracker /\ \E n \in 0..MaxSize : InitPeers(Bytes(n))

\* The serving peer, not registered, answers any DOWNLOAD.
NextServe ==
    \/ \E filename \in Names, start \in (0 - 1)..(MaxSize + 1),
          end \in (0 - 1)..(MaxSize + 1) :
          ServeDownload(filename, start, end)
    \/ \E j \in 1..MaxReports : HandleReport(j)

SpecServe == InitSizes /\ [][NextServe]_vars

\* One request_file of the downloading peer for one of `names`, with up to
\* `conns` connections, a connection losing one of `losses` bytes.
Transfer(names, conns, losses) ==
    \/ \E filename \in names, n \in 1..conns : StartDownload(filename, n)
    \/ \E k \in 1..conns : ServeChunk(k)
    \/ \E k \in 1..conns, lost \in losses : ReceiveChunk(k, lost)
    \/ \E k \in 1..conns : WriteChunk(k)
    \/ FinishDownload
    \/ \E j \in 1..conns : HandleReport(j)

\* request_file when the serving peer cannot be reached: _get_file_size
\* catches the exception and returns -1.
StartUnreachable(filename, num_connections) ==
    /\ download.pc = "idle"
    /\ download' = Download("failed", filename, 0 - 1, num_connections, 0)
    /\ UNCHANGED <<trackerVars, conn, workerVars, offered, keepalive, disk,
                   served, reports, local_files, chunks, dest, score0>>

\* The serving peer stops offering a file: the name leaves its self.files.
StopOffering(filename) ==
    /\ InList(filename, offered)
    /\ offered' = LET Other(f) == f # filename IN SelectSeq(offered, Other)
    /\ UNCHANGED <<trackerVars, conn, workerVars, keepalive, disk, served,
                   reports, local_files, download, chunks, dest, score0>>

\* The steps of thread k of a download.
ChunkStep(k) ==
    \/ ServeChunk(k)
    \/ \E lost \in {0, 1} : ReceiveChunk(k, lost)
    \/ WriteChunk(k)

\* One request_file for any name over one connection or two, against a
\* serving peer that may be out of reach or stop offering its file.
NextFetch ==
    \/ \E filename \in Names, n \in 1..2 : StartUnreachable(filename, n)
    \/ StopOffering("a.txt")
    \/ Transfer(Names, 2, {0, 1})

\* The threads of the download are scheduled, and a connection delivers or
\* closes; request_file joins them.
SpecFetch ==
    /\ InitSizes
    /\ [][NextFetch]_vars
    /\ \A k \in 1..2 : WF_vars(ChunkStep(k))
    /\ WF_vars(FinishDownload)

\* One download in all its variety, the serving peer at the tracker.
NextDownload ==
    \/ PeerRegister(ServerId, ServerIp, offered)
    \/ Transfer({"a.txt", "c.txt"}, MaxConn, {0, 1})

SpecDownload == InitSizes /\ [][NextDownload]_vars

\* One download that receives all its bytes over one connection or two, the
\* two peers at the tracker.
NextShare ==
    \/ PeerRegister(ServerId, ServerIp, offered)
    \/ PeerRegister(ClientId, ClientIp, local_files)
    \/ PeerSearch("a.txt")
    \/ Transfer({"a.txt"}, 2, {0})

SpecShare == InitSizes /\ [][NextShare]_vars

\* ------------------------------------------------- the keepalive loop
\* time.sleep(10) of remove_inactive_peers: the grain of the clock where the
\* keepalive loop runs.
Poll == 10

\* How long after the end of its sleep the loop's KEEPALIVE may be stamped by
\* the tracker: the thread's scheduling and the connection.
Delay == 10

\* Variant of NextWake: the loop sleeps three intervals.
NextWakeLate(t) == t + 3 * Interval

\* time.sleep(interval), entered at time t.
NextWake(t) == t + Interval

\* Variant of LoopAfter: a failed KEEPALIVE ends the loop.
LoopAfterEscalate(result) ==
    IF result = "KEEPALIVE_OK" THEN "sleep" ELSE "stopped"

\* while True: whatever send_keepalive got, the loop sleeps again.
LoopAfter(result) == "sleep"

\* What _send_msg_to_tracker returns for KEEPALIVE <peer_id>: the stripped
\* response, or "" when the tracker is out of reach.
KeepaliveResult(ps, pid, reached) ==
    IF reached THEN KeepaliveResp(ps, pid) ELSE ""

\* The sleep of the serving peer's _keepalive_loop ends and send_keepalive
\* runs; the tracker is reached or not.
KeepaliveLoop(reached) ==
    /\ keepalive.pc = "sleep"
    /\ time >= keepalive.wake
    /\ IF reached
       THEN Keepalive(ServerIp, ServerId)
       ELSE UNCHANGED trackerVars
    /\ keepalive' =
          LET result == KeepaliveResult(peers, ServerId, reached)
          IN  Loop(LoopAfter(result), NextWake(time), result)
    /\ UNCHANGED <<conn, workerVars, disk, served, reports, local_files,
                   download, chunks, dest, score0, offered>>

\* Time passes; a sleeping loop is not held up beyond Delay.
TickOnTime(d) ==
    /\ keepalive.pc = "sleep" => time + d <= keepalive.wake + Delay
    /\ Tick(d)
    /\ Elsewhere

\* The serving peer registers and unregisters at will while its loop runs;
\* the other peer registers and is not heard of again.
NextLoop(reaches) ==
    \/ \E reached \in reaches : KeepaliveLoop(reached)
    \/ PeerRegister(ServerId, ServerIp, offered)
    \/ Unregister(ServerIp, ServerId) /\ Elsewhere
    \/ PeerRegister(ClientId, ClientIp, <<>>)
    \/ ReaperSample /\ Elsewhere
    \/ ReaperPass /\ Elsewhere
    \/ TickOnTime(Poll)

\* Every KEEPALIVE of the loop reaches the tracker.
NextKeepalive == NextLoop({TRUE})

SpecKeepalive == Init /\ [][NextKeepalive]_vars

\* The tracker may be out of reach.
NextUnreliable == NextLoop({TRUE, FALSE})

SpecUnreliable == Init /\ [][NextUnreliable]_vars

\* ================================================================ claims
\* The elements of a list.
Elems(list) == {list[j] : j \in 1..Len(list)}

\* The positions of the entries with key pid.
Records(ps, pid) == {i \in 1..Len(ps) : ps[i].pid = pid}

\* A step that handles one command, its arguments those req' records.
RegisterStep ==
    /\ req'.cmd = "REGISTER"
    /\ Register(req'.from, req'.pid, req'.ip, req'.port, req'.files)

UnregisterStep ==
    /\ req'.cmd = "UNREGISTER"
    /\ Unregister(req'.from, req'.pid)

SearchStep ==
    /\ req'.cmd = "SEARCH"
    /\ Search(req'.from, req'.filename)

KeepaliveStep ==
    /\ req'.cmd = "KEEPALIVE"
    /\ Keepalive(req'.from, req'.pid)

IncrementStep ==
    /\ req'.cmd = "INCREMENT_SCORE"
    /\ IncrementScore(req'.from, req'.pid, req'.delta)

Holders(ps, f) ==
    {<<ps[i].pid, ps[i].ip, ps[i].port>> :
        i \in {k \in 1..Len(ps) : f \in Elems(ps[k].files)}}

\* C3: SEARCH f returns exactly the (id, ip, port) of the records in the
\* registry whose files hold f, each once, with the count of the lines; an
\* id leaves the registry with its UNREGISTER or its eviction and enters it
\* only with a REGISTER, so a removed peer is in no later result until then.
C3_SearchExact ==
    [][/\ SearchStep =>
             /\ resp'.text = "SEARCH_RESULT"
             /\ Elems(resp'.lines) = Holders(peers, req'.filename)
             /\ resp'.n = Len(resp'.lines)
             /\ resp'.n = Cardinality(Holders(peers, req'.filename))
       /\ UnregisterStep => req'.pid \notin Keys(peers')
       /\ ReaperPass => Elems(remove_list') \cap Keys(peers') = {}
       /\ \A pid \in Keys(peers') \ Keys(peers) :
             RegisterStep /\ req'.pid = pid
      ]_vars

\* The last command was a SEARCH that one of two registered peers answers.
C3_Witness ==
    /\ req.cmd = "SEARCH"
    /\ resp.n = 1
    /\ Len(peers) = 2
    /\ Holders(peers, req.filename) = Elems(resp.lines)

\* ---------------------------------------------------------------- C4
\* C4: a record's score is never negative and never decreases while the
\* record exists.
C4_ScoreNeverDecreases ==
    [][\A pid \in Keys(peers) \cap Keys(peers') :
          /\ Get(peers', pid).score >= Get(peers, pid).score
          /\ Get(peers', pid).score >= 0]_vars

\* ---------------------------------------------------------------- C5
\* C5 as stated: a record's score changes only by an INCREMENT_SCORE for its
\* id that the peer itself sent (a command from the record's own address).
C5_ScoreOnlyByOwnReport ==
    [][\A pid \in Keys(peers) \cap Keys(peers') :
          Get(peers', pid).score # Get(peers, pid).score =>
             /\ IncrementStep
             /\ req'.pid = pid
             /\ req'.from = Get(peers, pid).ip]_vars

\* C5 amended: a record's score changes only by an INCREMENT_SCORE that names
\* its id, whichever client sent it, and then by the delta of that command;
\* no other command changes it.
C5_ScoreOnlyByIncrement ==
    [][\A pid \in Keys(peers) \cap Keys(peers') :
          Get(peers', pid).score # Get(peers, pid).score =>
             /\ IncrementStep
             /\ req'.pid = pid
             /\ resp'.text = "INCREMENT_OK"
             /\ Get(peers', pid).score = Get(peers, pid).score + req'.delta]_vars

\* The last command was an INCREMENT_SCORE for a record, sent from another
\* address than the record's, and the record has a score.
C5_Witness ==
    /\ req.cmd = "INCREMENT_SCORE"
    /\ resp.text = "INCREMENT_OK"
    /\ Has(peers, req.pid)
    /\ Get(peers, req.pid).ip # req.from
    /\ Get(peers, req.pid).score # 0

\* ---------------------------------------------------------------- C6
\* C6: a record leaves the registry only by an UNREGISTER for its id or by a
\* reaper pass that finds it stale, and a REGISTER for a registered id leaves
\* the record (ip, port, files, score) as it was, once in the registry.
C6_RecordLeavesOnlyByUnregisterOrReaper ==
    [][/\ \A pid \in Keys(peers) \ Keys(peers') :
             \/ UnregisterStep /\ req'.pid = pid
             \/ ReaperPass /\ now - Get(peers, pid).last_keepalive > Timeout
       /\ (RegisterStep /\ req'.pid \in Keys(peers)) =>
             /\ Get(peers', req'.pid) = Get(peers, req'.pid)
             /\ Cardinality(Records(peers', req'.pid)) = 1
      ]_vars

\* A reaper pass has evicted a record, and the last command was a REGISTER
\* for a registered id that announced another address and other files than
\* its record holds; the record has a score.
C6_Witness ==
    /\ pcReaper = "sleep"
    /\ remove_list # <<>>
    /\ req.cmd = "REGISTER"
    /\ resp.text = "ALREADY_REGISTERED"
    /\ Has(peers, req.pid)
    /\ Get(peers, req.pid).ip # req.ip
    /\ Get(peers, req.pid).port # req.port
    /\ Get(peers, req.pid).files # req.files
    /\ Get(peers, req.pid).score # 0

\* ---------------------------------------------------------------- C7
\* C7: a reaper pass removes exactly the records whose last_keepalive is more
\* than the timeout older than the time the pass sampled, and keeps every
\* other record unchanged, in place.
C7_ReaperRemovesExactlyStale ==
    [][ReaperPass =>
          LET Fresh(e) == now - e.last_keepalive <= Timeout
          IN  peers' = SelectSeq(peers, Fresh)]_vars

\* A pass has removed a record and kept one aged exactly the timeout.
C7_Witness ==
    /\ pcReaper = "sleep"
    /\ remove_list # <<>>
    /\ \E i \in 1..Len(peers) : now - peers[i].last_keepalive = Timeout

\* ---------------------------------------------------------------- C8
\* C8: a KEEPALIVE for an id that is not registered is answered with the
\* peer-not-found error and leaves the registry unchanged; for a registered
\* id it is answered KEEPALIVE_OK and sets the record's last_keepalive to
\* the current time, changing nothing else; and a reaper pass keeps every
\* record whose last_keepalive is no more than the timeout before the time
\* the pass sampled.
C8_KeepaliveRestartsClock ==
    [][/\ KeepaliveStep =>
             IF req'.pid \in Keys(peers)
             THEN /\ resp' = Line("KEEPALIVE_OK")
                  /\ Len(peers') = Len(peers)
                  /\ \A i \in 1..Len(peers) :
                        peers'[i] =
                           IF peers[i].pid = req'.pid
                           THEN [peers[i] EXCEPT !.last_keepalive = time]
                           ELSE peers[i]
             ELSE /\ resp' = Line("ERROR Peer nao encontrado para KEEPALIVE")
                  /\ peers' = peers
       /\ ReaperPass =>
             \A pid \in Keys(peers) :
                now - Get(peers, pid).last_keepalive <= Timeout =>
                   /\ pid \in Keys(peers')
                   /\ Get(peers', pid) = Get(peers, pid)
      ]_vars

\* The last command was a KEEPALIVE that refreshed a record before the time
\* of the reaper's last sample, and that pass kept the record while it
\* evicted another.
C8_Witness ==
    /\ req.cmd = "KEEPALIVE"
    /\ resp.text = "KEEPALIVE_OK"
    /\ pcReaper = "sleep"
    /\ remove_list # <<>>
    /\ Has(peers, req.pid)
    /\ Get(peers, req.pid).last_keepalive > 1
    /\ Get(peers, req.pid).last_keepalive < now

\* ---------------------------------------------------------------- C9
\* C9 as stated: every REGISTER for an id sets the record's last_keepalive to
\* the time of that REGISTER, also when the id is already registered.
C9_RegisterRefreshes ==
    [][RegisterStep => Get(peers', req'.pid).last_keepalive = time]_vars

\* C9 amended: a REGISTER sets last_keepalive to its own time only when it
\* creates the record; a REGISTER for a registered id leaves the record's
\* last_keepalive as it was, and a pass that follows it still removes the
\* record when it is stale.
C9_RegisterStampsOnlyNewRecord ==
    [][/\ RegisterStep =>
             Get(peers', req'.pid).last_keepalive =
                IF req'.pid \in Keys(peers)
                THEN Get(peers, req'.pid).last_keepalive
                ELSE time
       /\ (ReaperPass /\ req.cmd = "REGISTER"
                      /\ resp.text = "ALREADY_REGISTERED") =>
             \A pid \in Keys(peers) \cap {req.pid} :
                now - Get(peers, pid).last_keepalive > Timeout =>
                   pid \notin Keys(peers')
      ]_vars

\* The last command was a REGISTER for a registered id, handled after a
\* command that stamped another record later than this one's last_keepalive.
C9_Witness ==
    /\ req.cmd = "REGISTER"
    /\ resp.text = "ALREADY_REGISTERED"
    /\ Has(peers, req.pid)
    /\ \E i \in 1..Len(peers) :
          peers[i].last_keepalive > Get(peers, req.pid).last_keepalive

\* --------------------------------------------------------------- C10
\* C10 as stated, for peers that send no KEEPALIVE at all (SpecSilent): the
\* reaper never removes a record that has never received a KEEPALIVE,
\* whatever time has passed since its registration.
C10_ReaperSparesSilentPeers ==
    [][ReaperPass => Keys(peers') = Keys(peers)]_vars

\* C10 amended, for peers that send no KEEPALIVE at all (SpecSilent): the
\* record's last_keepalive is the time of the REGISTER that created it, and
\* a reaper pass keeps the record if and only if the time the pass sampled
\* is no more than the timeout after it.
C10_ReaperSparesSilentPeersWithinTimeout ==
    [][/\ (RegisterStep /\ req'.pid \notin Keys(peers)) =>
             Get(peers', req'.pid).last_keepalive = time
       /\ \A pid \in Keys(peers) \cap Keys(peers') :
             Get(peers', pid).last_keepalive = Get(peers, pid).last_keepalive
       /\ ReaperPass =>
             \A pid \in Keys(peers) :
                pid \in Keys(peers') <=>
                   now - Get(peers, pid).last_keepalive <= Timeout
      ]_vars

\* A pass has removed a record that never received a KEEPALIVE and kept
\* another that was registered before the pass sampled the time.
C10_Witness ==
    /\ pcReaper = "sleep"
    /\ remove_list # <<>>
    /\ \E i \in 1..Len(peers) : peers[i].last_keepalive < now

\* --------------------------------------------------------------- C11
\* The verbs of the protocol, and the error responses of the tracker.
Verbs ==
    {"REGISTER", "UNREGISTER", "SEARCH", "GET_PEERS", "KEEPALIVE",
     "INCREMENT_SCORE"}

Errors ==
    {"ERROR Uso: REGISTER <peer_id> <ip> <port> [files]",
     "ERROR Uso: UNREGISTER <peer_id>",
     "ERROR Uso: SEARCH <filename>",
     "ERROR Uso: KEEPALIVE <peer_id>",
     "ERROR Uso: INCREMENT_SCORE <peer_id> <delta>",
     "ERROR Comando desconhecido"}

\* A line with an unknown verb, or with a token count that is not the
\* documented arity of its verb.
Malformed(parts) ==
    /\ parts # <<>>
    /\ LET cmd == Upper(parts[1])
           n == Len(parts)
       IN  \/ cmd \notin Verbs
           \/ cmd = "REGISTER" /\ n \notin {4, 5}
           \/ cmd \in {"UNREGISTER", "SEARCH", "KEEPALIVE"} /\ n # 2
           \/ cmd = "INCREMENT_SCORE" /\ n # 3

\* A step that handles one connection, its data those conn' records.
HandleStep == HandleClient(req'.from, conn'.parts)

\* C11: a malformed command (an unknown verb, or a verb with a token count
\* other than its documented arity) leaves the registry unchanged and is
\* answered with an ERROR response.
C11_MalformedRejected ==
    [][(HandleStep /\ Malformed(conn'.parts)) =>
          /\ peers' = peers
          /\ resp'.text \in Errors]_vars

\* --------------------------------------------------------------- C12
\* C12: every connection the tracker has handled and closed got exactly one
\* response, never none and never more than one.
C12_ExactlyOneResponse == conn.closed => conn.sends = 1

RECURSIVE SumDeltas(_)
SumDeltas(ws) ==
    IF ws = {} THEN 0
    ELSE LET w == CHOOSE x \in ws : TRUE
         IN  workers[w].delta + SumDeltas(ws \ {w})

\* The threads whose INCREMENT_SCORE for pid was answered INCREMENT_OK, and
\* those that are between the load of the score and the answer.
Answered(pid) ==
    {w \in Workers : /\ workers[w].cmd = "INCREMENT_SCORE"
                     /\ workers[w].pid = pid
                     /\ workers[w].pc \in {"sent", "closed"}
                     /\ workers[w].resp = "INCREMENT_OK"}

Updating(pid) ==
    {w \in Workers : /\ workers[w].cmd = "INCREMENT_SCORE"
                     /\ workers[w].pid = pid
                     /\ workers[w].pc \in {"loaded", "send"}}

\* C14: whatever the interleaving of the threads, the score of a record is
\* the sum of the deltas of the INCREMENT_SCORE commands for it that were
\* answered INCREMENT_OK since the record was created with score 0, as soon
\* as no thread is in the middle of an increment; at most one thread is.
C14_IncrementsAccumulate ==
    \A pid \in Keys(peers) :
       /\ Cardinality(Updating(pid)) <= 1
       /\ Updating(pid) = {} =>
             Get(peers, pid).score = SumDeltas(Answered(pid))

\* Two threads have incremented the score of the record by 1 and by 2 and
\* have closed: the score is 3.
C14_Witness ==
    /\ Has(peers, "PEER1")
    /\ Get(peers, "PEER1").score = 3
    /\ Cardinality(Answered("PEER1")) = 2
    /\ \A w \in Workers : workers[w].pc = "closed"

\* --------------------------------------------------------------- C20
\* C20: no thread holds the registry lock while it is in sendall.
C20_LockNeverHeldAcrossIO ==
    \A w \in Workers : workers[w].pc = "send" => lock # w

\* --------------------------------------------------------------- C15
\* The threads of a download whose range holds the offset b.
Covering(b) ==
    {k \in 1..Len(chunks) : chunks[k].start <= b /\ b < chunks[k].end}

\* C15: for a file of size S > 0 and N >= 1 connections, the ranges of
\* request_file are N ranges, the first from 0, each beginning where the one
\* before it ends, the last ending at S, each S div N long but the last,
\* which takes the remainder as well; every offset of [0, S) is in exactly
\* one of them and no range holds any other offset.
C15_RangesPartitionFile ==
    download.pc \in {"running", "done"} =>
       LET S == download.file_size
           N == download.num_connections
       IN  /\ S > 0 /\ N >= 1
           /\ Len(chunks) = N
           /\ chunks[1].start = 0
           /\ chunks[N].end = S
           /\ \A k \in 1..(N - 1) :
                 /\ chunks[k].end = chunks[k + 1].start
                 /\ chunks[k].end - chunks[k].start = S \div N
           /\ chunks[N].end - chunks[N].start = (S \div N) + (S % N)
           /\ \A b \in 0..(S - 1) : Cardinality(Covering(b)) = 1
           /\ \A k \in 1..N : 0 <= chunks[k].start /\ chunks[k].end <= S
                              /\ chunks[k].start <= chunks[k].end

\* A download with more connections than the file has bytes.
C15_Witness ==
    /\ download.pc = "running"
    /\ download.num_connections > download.file_size
    /\ download.file_size > 1

\* --------------------------------------------------------------- C16
\* The number of bytes the first k threads received.
RECURSIVE ReceivedUpTo(_)
ReceivedUpTo(k) ==
    IF k = 0 THEN 0 ELSE Len(chunks[k].data) + ReceivedUpTo(k - 1)

\* Every thread of the download received its whole range.
AllReceived ==
    \A k \in 1..Len(chunks) :
       Len(chunks[k].data) = chunks[k].end - chunks[k].start

\* C16: when request_file has returned and every thread received its whole
\* range, then, in whatever order the threads wrote, the destination file is
\* S bytes long and equal to the remote file byte for byte, and the lengths
\* received sum to S.
C16_DownloadReproducesFile ==
    (download.pc = "done" /\ AllReceived) =>
       /\ Len(dest) = download.file_size
       /\ dest = disk
       /\ ReceivedUpTo(Len(chunks)) = download.file_size

\* A download of a file whose size its connections do not divide has
\* returned, every thread having received its whole range.
C16_Witness ==
    /\ download.pc = "done"
    /\ AllReceived
    /\ download.num_connections >= 2
    /\ download.file_size % download.num_connections # 0
    /\ download.file_size > download.num_connections

\* --------------------------------------------------------------- C17
\* C17: when request_file has returned from the download of a file that was
\* not in the local file set, the file name is in the local file set, and a
\* SEARCH for it that the tracker handles afterwards, the peer being
\* registered, returns the downloading peer.
C17_DownloadedFileIsShared ==
    [][/\ download'.pc = "done" => InList(download'.filename, local_files')
       /\ (SearchStep /\ download.pc = "done" /\ Has(peers, ClientId)
                      /\ req'.filename = download.filename) =>
             \E i \in 1..Len(resp'.lines) : resp'.lines[i][1] = ClientId
      ]_vars

\* --------------------------------------------------------------- C18
\* C18: when the serving peer was registered as the download began, then
\* once request_file has returned with every range received whole and the
\* tracker has handled every INCREMENT_SCORE of the serving peer, its score
\* is S more than it was, S the size of the file; and the handling of a
\* DOWNLOAD whose range is empty sends no INCREMENT_SCORE.
C18_ScoreGrowsBySize ==
    [][/\ (/\ download'.pc = "done"
           /\ AllReceived'
           /\ reports' = <<>>
           /\ \A k \in 1..Len(chunks') : chunks'[k].pc # "started"
           /\ score0' >= 0) =>
             /\ Has(peers', ServerId)
             /\ Get(peers', ServerId).score = score0' + download'.file_size
       /\ \A k \in 1..Len(chunks) :
             (ServeChunk(k) /\ chunks[k].end - chunks[k].start <= 0) =>
                reports' = reports
       /\ \A k \in 1..Len(chunks) :
             (ServeChunk(k) /\ chunks[k].end - chunks[k].start > 0) =>
                reports' = Append(reports, chunks[k].end - chunks[k].start)
      ]_vars

\* A download over three connections has returned, and the tracker has
\* handled the three reports: the score of the serving peer is the size of
\* the file.
C18_Witness ==
    /\ download.pc = "done"
    /\ AllReceived
    /\ reports = <<>>
    /\ score0 = 0
    /\ download.num_connections = 3
    /\ download.file_size = 4
    /\ Has(peers, ServerId)
    /\ Get(peers, ServerId).score = 4

\* --------------------------------------------------------------- C19
\* C19: for the offered file of size F and any start and end, the DOWNLOAD
\* handler sends the bytes of the file at the offsets from max(start, 0) up
\* to min(end, F), exactly max(0, min(end, F) - max(start, 0)) of them, and
\* when there are none it sends nothing and reports no score; for a file name
\* that is not in the local file set it sends `ERROR FILE NOT FOUND`, no byte
\* of a file, and reports no score.
C19_UploadSendsClampedRange ==
    served.filename # "" =>
       LET F == Len(disk)
           lo == IF served.start > 0 THEN served.start ELSE 0
           hi == IF served.end < F THEN served.end ELSE F
           length == IF hi - lo > 0 THEN hi - lo ELSE 0
       IN  /\ (InList(served.filename, ServerFiles) /\ Exists(served.filename)) =>
                /\ served.text = ""
                /\ Len(served.data) = length
                /\ \A i \in 1..length : served.data[i] = disk[lo + i]
                /\ length = 0 => served.report = 0
           /\ ~InList(served.filename, ServerFiles) =>
                /\ served.text = "ERROR FILE NOT FOUND"
                /\ served.data = <<>>
                /\ served.report = 0

\* The serving peer has answered a DOWNLOAD of the middle of its file.
C19_Witness ==
    /\ served.filename = "a.txt"
    /\ served.start = 1
    /\ served.end = 3
    /\ Len(disk) = 4
    /\ served.data = <<2, 3>>

\* --------------------------------------------------------------- C21
\* The invariants of the registry: one record for an id, a positive
\* last_keepalive, a score that is not negative.
RegistryConsistent ==
    /\ Cardinality(Keys(peers)) = Len(peers)
    /\ \A i \in 1..Len(peers) :
          peers[i].last_keepalive > 0 /\ peers[i].score >= 0

\* C21: whatever fails in a handler (the parse, an exception inside the lock,
\* the sendall), the lock is only ever held by a thread that is inside its
\* with block, never by one that has ended; the registry keeps its
\* invariants; and every other thread that has a command, and the reaper,
\* still runs to its end.
C21_FailureIsLocal ==
    /\ [](/\ \A w \in Workers :
                lock = w =>
                   workers[w].pc \in {"locked", "loaded", "send", "sent"}
          /\ RegistryConsistent)
    /\ \A w \in Workers :
          (workers[w].pc = "parsed") ~>
             (workers[w].pc \in {"closed", "failed"})
    /\ (pcReaper = "sampled") ~> (pcReaper = "sleep")

\* A handler has failed in its sendall after it stored the record, and the
\* two other threads have handled their commands to the end.
C21_Witness ==
    /\ \E w \in Workers :
          /\ workers[w].pc = "failed"
          /\ workers[w].cmd = "REGISTER"
          /\ workers[w].resp = "REGISTER_OK"
          /\ \A v \in Workers \ {w} :
                workers[v].pc = "closed" /\ workers[v].resp = "INCREMENT_OK"
    /\ lock = "free"
    /\ Has(peers, "PEER1")

\* --------------------------------------------------------------- C22
\* C22: no record's files hold the same name twice.
C22_FilesHaveNoDuplicates ==
    \A i \in 1..Len(peers) :
       Len(peers[i].files) = Cardinality(Elems(peers[i].files))

\* --------------------------------------------------------------- C23
\* The size query of request_file for the name fails at the serving peer: the
\* name is not offered, the file is not on the disk, or its size is 0.
QueryFails(filename) ==
    \/ ~InList(filename, offered)
    \/ ~Exists(filename)
    \/ Len(disk) = 0

\* C23: when the size query of request_file fails (an error answer, a size
\* that is not positive, a serving peer out of reach), request_file gives up:
\* it starts no thread, creates no destination file and sends no DOWNLOAD,
\* then and ever after.
C23_GivesUpBeforeTransfer ==
    [][/\ (download.pc = "idle" /\ download'.pc # "idle") =>
             /\ (QueryFails(download'.filename) \/ download'.file_size <= 0) =>
                   download'.pc = "failed"
             /\ download'.pc = "failed" =>
                   chunks' = <<>> /\ dest' = <<>> /\ served' = served
       /\ download.pc = "failed" =>
             /\ download' = download
             /\ chunks' = <<>> /\ dest' = <<>> /\ served' = served
      ]_vars

\* request_file has given up because the serving peer, which offers the file
\* and has it on its disk, was out of reach.
C23_Witness ==
    /\ download.pc = "failed"
    /\ download.file_size < 0
    /\ ~QueryFails(download.filename)
    /\ chunks = <<>>
    /\ dest = <<>>

\* --------------------------------------------------------------- C24
\* C24: a thread of a download takes one connection and no other (it never
\* returns to an earlier position); request_file, once it has started its
\* threads, returns, whatever the threads received; and when it has returned
\* the destination file holds, in the range of every thread, the bytes the
\* thread received, followed by the zeros the file was created with.
C24_PartialChunkIsFinal ==
    /\ [][\A k \in 1..Len(chunks) :
             /\ chunks[k].pc = "served" => chunks'[k].pc \in {"served", "received"}
             /\ chunks[k].pc = "received" => chunks'[k].pc \in {"received", "written"}
             /\ chunks[k].pc = "written" => chunks'[k] = chunks[k]
             /\ chunks[k].pc # "started" => chunks'[k].wire = chunks[k].wire]_vars
    /\ [](download.pc = "done" =>
             /\ Len(dest) = download.file_size
             /\ \A k \in 1..Len(chunks) :
                   \A b \in chunks[k].start..(chunks[k].end - 1) :
                      dest[b + 1] =
                         IF b - chunks[k].start < Len(chunks[k].data)
                         THEN chunks[k].data[b - chunks[k].start + 1]
                         ELSE 0)
    /\ (download.pc = "running") ~> (download.pc = "done")

\* request_file has returned although a thread received fewer bytes than its
\* range: the last byte of the range is the zero of the new file.
C24_Witness ==
    /\ download.pc = "done"
    /\ download.num_connections = 2
    /\ \E k \in 1..Len(chunks) :
          /\ Len(chunks[k].data) = 1
          /\ chunks[k].end - chunks[k].start = 2
          /\ dest[chunks[k].end] = 0
          /\ disk[chunks[k].end] # 0

\* --------------------------------------------------------------- C25
\* C25: with the interval of 30 s, the timeout of 60 s and the poll of 10 s,
\* no pass of the reaper removes the record of a registered peer whose loop's
\* KEEPALIVEs all reach the tracker, from its REGISTER on.
C25_KeepaliveAvoidsEviction ==
    [][(pcReaper = "sampled" /\ pcReaper' = "sleep" /\ Has(peers, ServerId)) =>
          /\ Has(peers', ServerId)
          /\ ~InList(ServerId, remove_list')]_vars

\* A pass has removed the silent peer and kept the peer with the loop, whose
\* last KEEPALIVE was a whole interval old when the pass sampled the time.
C25_Witness ==
    /\ pcReaper = "sleep"
    /\ remove_list = <<ClientId>>
    /\ Has(peers, ServerId)
    /\ keepalive.result = "KEEPALIVE_OK"
    /\ now - Get(peers, ServerId).last_keepalive >= Interval

\* --------------------------------------------------------------- C26
\* C26: the loop never ends and is never overdue: after an attempt, whatever
\* it got (KEEPALIVE_OK, the peer-not-found error, nothing), the loop sleeps
\* one interval from the time of the attempt; a failed attempt changes
\* neither the registry nor the files the peer offers, nor anything else of
\* the peer.
C26_LoopSurvivesFailure ==
    /\ [](keepalive.pc = "sleep" /\ time <= keepalive.wake + Delay)
    /\ [][keepalive' # keepalive =>
             /\ time >= keepalive.wake
             /\ keepalive'.pc = "sleep"
             /\ keepalive'.wake = time + Interval
             /\ keepalive'.result # "KEEPALIVE_OK" =>
                   /\ peers' = peers
                   /\ UNCHANGED <<disk, served, reports, local_files,
                                  download, chunks, dest, score0, offered>>
      ]_vars

\* The loop, registered, has failed to reach the tracker in an attempt that
\* was not its first, and sleeps again.
C26_Witness ==
    /\ keepalive.result = ""
    /\ keepalive.pc = "sleep"
    /\ keepalive.wake = time + Interval
    /\ time > 1 + Interval + Delay
    /\ Has(peers, ServerId)

\* --------------------------------------------------------------- C27
\* C27: a KEEPALIVE or an INCREMENT_SCORE for an id that has no record (it
\* was removed by the reaper, unregistered, or never registered) is answered
\* with an error and leaves the registry as it was; SEARCH and GET_PEERS list
\* registered ids only; an id gets a record by a REGISTER and no other step,
\* and the new record's score is 0.
C27_AbsentPeerStaysAbsent ==
    [][/\ (KeepaliveStep /\ ~Has(peers, req'.pid)) =>
             /\ peers' = peers
             /\ resp' = Line("ERROR Peer nao encontrado para KEEPALIVE")
       /\ (IncrementStep /\ ~Has(peers, req'.pid)) =>
             /\ peers' = peers
             /\ resp' = Line("ERROR Peer nao encontrado para INCREMENT_SCORE")
       /\ (SearchStep \/ (req'.cmd = "GET_PEERS" /\ GetPeers(req'.from))) =>
             \A j \in 1..Len(resp'.lines) : Has(peers, resp'.lines[j][1])
       /\ \A pid \in Ids :
             (~Has(peers, pid) /\ Has(peers', pid)) =>
                /\ RegisterStep
                /\ req'.pid = pid
                /\ Get(peers', pid).score = 0
      ]_vars

\* The KEEPALIVE of a peer the reaper has removed was answered with the error
\* and the peer has no record.
C27_Witness ==
    /\ req.cmd = "KEEPALIVE"
    /\ InList(req.pid, remove_list)
    /\ ~Has(peers, req.pid)
    /\ resp = Line("ERROR Peer nao encontrado para KEEPALIVE")

\* --------------------------------------------------------------- C28
\* C28: every byte of the destination file that a thread of the download has
\* written is the byte of the serving peer's file at the same offset (the
\* other bytes are the zeros the file was created with); the text of an error
\* reply is never written as content.
C28_WrittenBytesAreRemoteBytes ==
    \A b \in 1..Len(dest) :
       \/ dest[b] = 0
       \/ b <= Len(disk) /\ dest[b] = disk[b]

====
